---- MODULE Spec2Model ----
(***************************************************************************)
(* Model of the authenticated request engine of the Siigo MCP server:      *)
(* src/src/siigo-client.ts (class SiigoClient: token cache, authenticate,  *)
(* request with retry/backoff, getRetryDelay, isRetryableError,            *)
(* formatErrorMessage, getToken).                                          *)
(*                                                                         *)
(* JavaScript runs each stretch of code between two awaits atomically, so  *)
(* every action below is one such stretch: from the event that resumes a   *)
(* call (start, HTTP response, timer) up to its next await or its end.     *)
(* Time is in milliseconds, as Date.now() and setTimeout see it.           *)
(***************************************************************************)
EXTENDS Integers, Sequences, FiniteSets, TLC

\* ---------------------------------------------------------------- constants
\* a retry budget that is one too large
MAX_RETRIES_OneMore == 3 + 1

MAX_RETRIES == 3
INITIAL_RETRY_DELAY_MS == 1000
RETRYABLE_STATUS_CODES == {429, 500, 502, 503, 504}
\* the margin subtracted from the reported lifetime, in ms
SAFETY_MARGIN_MS == 60000

\* ------------------------------------------------------------------- bounds
\* the clock stops advancing at MaxTime
MaxTime == 7000
\* the clock of the specification SpecConc runs from 0 to MaxConcTime
MaxConcTime == 3000
\* at most MaxAuth POST /auth requests are issued in one behaviour
MaxAuth == 2
\* the clock advances in steps drawn from this set
TickSteps == {1000}
\* lifetimes (seconds) the auth endpoint may report
ExpiresIn == {30, 61, 86400}

\* ------------------------------------------------------------ option values
None == <<>>
Some(x) == <<x>>
\* accessToken = null
NoToken == 0

\* the logical calls that may be in progress on the one client
Calls == {"c1", "c2"}
\* the calls driven by the specification Spec
Solo == {"c1"}

\* ------------------------------------------------- strings and parseInt(10)
\* a string is a sequence of one-character strings
DigitValue ==
  ("0" :> 0) @@ ("1" :> 1) @@ ("2" :> 2) @@ ("3" :> 3) @@ ("4" :> 4) @@
  ("5" :> 5) @@ ("6" :> 6) @@ ("7" :> 7) @@ ("8" :> 8) @@ ("9" :> 9)

IsDigit(ch) == ch \in DOMAIN DigitValue

IsWhite(ch) == ch \in {" ", "\t", "\n", "\r"}

RECURSIVE SkipWhite(_, _)
\* index of the first non-whitespace character of s at or after i
SkipWhite(s, i) ==
  IF i <= Len(s) /\ IsWhite(s[i]) THEN SkipWhite(s, i + 1) ELSE i

RECURSIVE ReadDigits(_, _, _)
\* value of the longest run of decimal digits of s starting at i, after acc
ReadDigits(s, i, acc) ==
  IF i <= Len(s) /\ IsDigit(s[i])
  THEN ReadDigits(s, i + 1, 10 * acc + DigitValue[s[i]])
  ELSE acc

\* parseInt(s, 10): None stands for NaN
ParseInt(s) ==
  LET i == SkipWhite(s, 1)
      signed == i <= Len(s) /\ s[i] \in {"-", "+"}
      j == IF signed THEN i + 1 ELSE i
  IN IF j <= Len(s) /\ IsDigit(s[j])
     THEN Some((IF signed /\ s[i] = "-" THEN -1 ELSE 1) * ReadDigits(s, j, 0))
     ELSE None

\* ------------------------------------------------------------ HTTP messages
\* a response header: absent (undefined) or a string
NoHeader == [present |-> FALSE, value |-> <<>>]
Header(s) == [present |-> TRUE, value |-> s]

\* Retry-After values the upstream may send
RetryAfterHeaders ==
  { NoHeader,
    Header(<<"5">>),
    Header(<<"-", "1">>),
    Header(<<"W", "e", "d", ",">>) }

\* response bodies (error.response.data)
NoField == [present |-> FALSE, type |-> "undefined", value |-> ""]
StrField(s) == [present |-> TRUE, type |-> "string", value |-> s]
NumField(n) == [present |-> TRUE, type |-> "number", value |-> ToString(n)]

\* falsy data: undefined, null, "" or 0
BodyEmpty ==
  [type |-> "empty", text |-> "", Status |-> NoField, Message |-> NoField,
   hasErrors |-> FALSE, Errors |-> <<>>]
\* a non-empty plain-text or HTML string
BodyText ==
  [type |-> "string", text |-> "<html>Service Unavailable</html>",
   Status |-> NoField, Message |-> NoField, hasErrors |-> FALSE, Errors |-> <<>>]
\* the rate-limit shape
BodyRateLimit ==
  [type |-> "object", text |-> "", Status |-> StrField("TooManyRequests"),
   Message |-> StrField("slow down"), hasErrors |-> FALSE, Errors |-> <<>>]
\* the list-of-errors shape
BodyErrors ==
  [type |-> "object", text |-> "", Status |-> NumField(400), Message |-> NoField,
   hasErrors |-> TRUE,
   Errors |-> << [Code |-> "ERR1", Message |-> "Bad field",
                  Detail |-> StrField("code required")] >>]
\* an object of neither shape
BodyOther ==
  [type |-> "object", text |-> "{\"error\":\"x\"}", Status |-> NoField,
   Message |-> NoField, hasErrors |-> FALSE, Errors |-> <<>>]

Bodies == {BodyEmpty, BodyText, BodyRateLimit, BodyErrors}

\* a non-zero number
BodyNumber ==
  [type |-> "number", text |-> "5", Status |-> NoField, Message |-> NoField,
   hasErrors |-> FALSE, Errors |-> <<>>]
\* an array: an object in which `in` finds neither Message nor Errors
BodyArray ==
  [type |-> "object", text |-> "[\"down\"]", Status |-> NoField,
   Message |-> NoField, hasErrors |-> FALSE, Errors |-> <<>>]

\* entries of an Errors array, with and without Detail
ErrorWithDetail ==
  [Code |-> "ERR1", Message |-> "Bad field", Detail |-> StrField("code required")]
ErrorNoDetail ==
  [Code |-> "ERR2", Message |-> "Not found", Detail |-> NoField]

\* what the fields of an object body may hold; Errors is None when it is
\* absent and Some(array) otherwise
StatusFields == {NoField, StrField("TooManyRequests"), NumField(400)}
MessageFields == {NoField, StrField("slow down"), NumField(7)}
ErrorsFields ==
  { None, Some(<<>>), Some(<<ErrorWithDetail>>), Some(<<ErrorNoDetail>>),
    Some(<<ErrorWithDetail, ErrorNoDetail>>) }

RECURSIVE JoinText(_, _)
\* parts.join(sep) for a sequence of strings
JoinText(parts, sep) ==
  IF parts = <<>> THEN ""
  ELSE IF Len(parts) = 1 THEN parts[1]
  ELSE parts[1] \o sep \o JoinText(Tail(parts), sep)

\* JSON.stringify of one property of a body: nothing when it is undefined
JsonField(name, f) ==
  IF ~f.present THEN <<>>
  ELSE IF f.type = "string" THEN << "\"" \o name \o "\":\"" \o f.value \o "\"" >>
  ELSE << "\"" \o name \o "\":" \o f.value >>

\* JSON.stringify of one entry of Errors
JsonError(e) ==
  "{" \o JoinText(JsonField("Code", StrField(e.Code)) \o
                  JsonField("Message", StrField(e.Message)) \o
                  JsonField("Detail", e.Detail), ",") \o "}"

\* JSON.stringify of an object body with the properties Status, Message, Errors
Stringify(st, msg, errs) ==
  "{" \o JoinText(
     JsonField("Status", st) \o JsonField("Message", msg) \o
     (IF errs = None THEN <<>>
      ELSE << "\"Errors\":[" \o
              JoinText([i \in 1..Len(errs[1]) |-> JsonError(errs[1][i])], ",") \o
              "]" >>), ",") \o "}"

\* the object body {Status: st, Message: msg, Errors: errs}
ObjectBody(st, msg, errs) ==
  [type |-> "object", text |-> Stringify(st, msg, errs), Status |-> st,
   Message |-> msg, hasErrors |-> errs # None,
   Errors |-> IF errs = None THEN <<>> ELSE errs[1]]

\* the bodies formatErrorMessage is examined on
FormatBodies ==
  {BodyEmpty, BodyText, BodyNumber, BodyArray} \cup
  {ObjectBody(st, msg, errs) :
     st \in StatusFields, msg \in MessageFields, errs \in ErrorsFields}

\* statuses of failed responses the upstream may send
FailStatuses == {400, 429, 503}

\* an AxiosError without a response (connection refused, DNS, timeout)
NoResponse ==
  [hasResponse |-> FALSE, status |-> 0, retryAfter |-> NoHeader, data |-> BodyEmpty,
   message |-> "timeout of 30000ms exceeded"]

HttpError(st, h, b) ==
  [hasResponse |-> TRUE, status |-> st, retryAfter |-> h, data |-> b,
   message |-> "Request failed with status code"]

\* the failures one physical attempt can end with
Failures ==
  {NoResponse} \cup
  {HttpError(st, h, b) : st \in FailStatuses, h \in RetryAfterHeaders, b \in Bodies}

\* the errors formatErrorMessage is examined on
FormatInputs ==
  {NoResponse} \cup
  {HttpError(st, NoHeader, b) : st \in FailStatuses, b \in FormatBodies}

\* the operations a caller may invoke: method, endpoint, extra headers
Ops ==
  { [method |-> "GET", endpoint |-> "/v1/products", idempotencyKey |-> None],
    [method |-> "POST", endpoint |-> "/v1/invoices", idempotencyKey |-> Some("k1")] }

NoOp == [method |-> "", endpoint |-> "", idempotencyKey |-> None]

\* ------------------------------------------------------------ pure helpers
\* a backoff that does not grow
Pow2_Flat(n) == 1

RECURSIVE Pow2(_)
\* Math.pow(2, n) for a natural n
Pow2(n) == IF n = 0 THEN 1 ELSE 2 * Pow2(n - 1)

\* isRetryableError(error)
isRetryableError(error) ==
  IF ~error.hasResponse THEN TRUE
  ELSE error.status \in RETRYABLE_STATUS_CODES

\* the local retryAfterSeconds of getRetryDelay: parseInt of the header when
\* the header is truthy (undefined and "" are falsy), None when it is NaN or
\* was not computed
RetryAfterSeconds(retryAfterHeader) ==
  IF retryAfterHeader.present /\ retryAfterHeader.value # <<>>
  THEN ParseInt(retryAfterHeader.value)
  ELSE None

\* a backoff that grows linearly instead of doubling
getRetryDelay_Linear(attempt, retryAfterHeader) ==
  LET retryAfterSeconds == RetryAfterSeconds(retryAfterHeader)
  IN IF retryAfterSeconds # None
     THEN retryAfterSeconds[1] * 1000
     ELSE INITIAL_RETRY_DELAY_MS * (attempt + 1)

\* a Retry-After that is never allowed to undercut the backoff
getRetryDelay_Floor(attempt, retryAfterHeader) ==
  LET retryAfterSeconds == RetryAfterSeconds(retryAfterHeader)
      backoff == INITIAL_RETRY_DELAY_MS * Pow2(attempt)
  IN IF retryAfterSeconds # None /\ retryAfterSeconds[1] * 1000 > backoff
     THEN retryAfterSeconds[1] * 1000
     ELSE backoff

\* a Retry-After that is kept between 0 and 30 s
getRetryDelay_Clamped(attempt, retryAfterHeader) ==
  LET retryAfterSeconds == RetryAfterSeconds(retryAfterHeader)
      ms == IF retryAfterSeconds # None THEN retryAfterSeconds[1] * 1000 ELSE 0
  IN IF retryAfterSeconds # None
     THEN (IF ms < 0 THEN 0 ELSE IF ms > 30000 THEN 30000 ELSE ms)
     ELSE INITIAL_RETRY_DELAY_MS * Pow2(attempt)

\* getRetryDelay(attempt, retryAfterHeader)
getRetryDelay(attempt, retryAfterHeader) ==
  LET retryAfterSeconds == RetryAfterSeconds(retryAfterHeader)
  IN IF retryAfterSeconds # None
     THEN retryAfterSeconds[1] * 1000
     ELSE INITIAL_RETRY_DELAY_MS * Pow2(attempt)

\* the test of line 154
ShouldRetry(attempt, error) ==
  attempt < MAX_RETRIES /\ isRetryableError(error)

\* the template rendering ${x} of a field of the body
Render(f) == IF f.present THEN f.value ELSE "undefined"

\* one entry of Errors rendered: `${Code}: ${Message}${Detail ? ` - ${Detail}` : ''}`
RenderError(e) ==
  <<e.Code, ": ", e.Message>> \o
  (IF e.Detail.present /\ e.Detail.value # "" THEN <<" - ", e.Detail.value>> ELSE <<>>)

RECURSIVE JoinErrors(_)
\* errors.map(RenderError).join('; ')
JoinErrors(errors) ==
  IF errors = <<>> THEN <<>>
  ELSE IF Len(errors) = 1 THEN RenderError(errors[1])
  ELSE RenderError(errors[1]) \o <<"; ">> \o JoinErrors(Tail(errors))

\* a no-body test that asks for an absent response only (data === undefined)
formatErrorMessage_UndefinedOnly(error) ==
  LET data == error.data
      status == IF error.hasResponse THEN ToString(error.status) ELSE "undefined"
  IN IF ~error.hasResponse
     THEN [throws |-> FALSE, text |-> <<"HTTP ", status, ": ", error.message>>]
     ELSE IF data.type # "object"
     THEN [throws |-> TRUE, text |-> <<"Cannot use 'in' operator">>]
     ELSE IF data.Message.present /\ data.Message.type = "string"
     THEN [throws |-> FALSE,
           text |-> <<Render(data.Status), ": ", data.Message.value>>]
     ELSE IF data.hasErrors
     THEN [throws |-> FALSE, text |-> JoinErrors(data.Errors)]
     ELSE [throws |-> FALSE, text |-> <<data.text>>]

\* formatErrorMessage(error): the message as a sequence of text pieces, or a
\* TypeError when the `in` operator is applied to a primitive body
formatErrorMessage(error) ==
  LET data == error.data
      status == IF error.hasResponse THEN ToString(error.status) ELSE "undefined"
  IN IF ~error.hasResponse \/ data.type = "empty"
     THEN [throws |-> FALSE, text |-> <<"HTTP ", status, ": ", error.message>>]
     ELSE IF data.type # "object"
     THEN [throws |-> TRUE, text |-> <<"Cannot use 'in' operator">>]
     ELSE IF data.Message.present /\ data.Message.type = "string"
     THEN [throws |-> FALSE,
           text |-> <<Render(data.Status), ": ", data.Message.value>>]
     ELSE IF data.hasErrors
     THEN [throws |-> FALSE, text |-> JoinErrors(data.Errors)]
     ELSE [throws |-> FALSE, text |-> <<data.text>>]

\* setTimeout(resolve, ms): Node sets a delay below 1 or above 2^31-1 to 1
TimerDelay(ms) == IF ms < 1 \/ ms > 2147483647 THEN 1 ELSE ms

\* --------------------------------------------------------------------- state
VARIABLES
  now,          \* Date.now()
  accessToken,  \* this.accessToken: NoToken or the id of a token
  tokenExpiry,  \* this.tokenExpiry: None or Some(ms)
  authPosts,    \* number of POST /auth requests issued so far
  lastAuth,     \* the latest successful /auth response: access_token, expires_in
  gt,           \* getToken(): "idle" or "auth" (its POST /auth is in flight)
  pc,           \* per call: idle, auth, request, sleep, returned, raised
  op,           \* per call: method, endpoint and extra headers it was invoked with
  token,        \* per call: the local `token` of request()
  cached,       \* per call: authenticate() returned the cached token (line 113)
  tokenExp,     \* per call: the expiry cached together with that token
  attempt,      \* per call: the loop variable `attempt`
  sends,        \* per call: number of physical API attempts issued
  delays,       \* per call: the delays passed to sleep(), in order, each with the
                \* parsed Retry-After it was computed from (None: NaN or no header)
  lastFail,     \* per call: the failure the current catch block handles
  wakeAt,       \* per call: earliest time the pending timer fires
  err,          \* per call: the error raised to the caller
  sent,         \* per call: None, or Some(the request of its latest attempt)
  fin,          \* the AxiosError handed to formatErrorMessage on its own
  fout,         \* None, or Some(what formatErrorMessage made of fin)
  credentials,  \* SIIGO_USERNAME and SIIGO_ACCESS_KEY are both set
  siigoClient,  \* the module variable siigoClient of index.ts is not null
  tool,         \* per call: the latest tool invocation the handler received
  result,       \* per call: the result the handler gave for it
  api,          \* per call: the API method invoked and the key its caller gave
  started       \* main() has connected the server to its transport

cacheVars == <<accessToken, tokenExpiry, lastAuth>>
callVars == <<pc, op, token, cached, tokenExp, attempt, sends, delays, lastFail, wakeAt, err,
              sent>>
fmtVars == <<fin, fout>>
hostVars == <<credentials, siigoClient, tool, result, api, started>>
vars == <<now, accessToken, tokenExpiry, authPosts, lastAuth, gt,
          pc, op, token, cached, tokenExp, attempt, sends, delays, lastFail, wakeAt, err,
          sent, fin, fout, credentials, siigoClient, tool, result, api, started>>

NoError == [type |-> "none", message |-> <<>>, statusCode |-> None,
            endpoint |-> None, method |-> None]

NoFailure == [hasResponse |-> FALSE, status |-> 0, retryAfter |-> NoHeader,
              data |-> BodyEmpty, message |-> ""]

\* no tool invocation, no handler result
NoTool == [name |-> "", argsValid |-> TRUE]
NoResult == [state |-> "none", isError |-> FALSE, text |-> <<>>]
\* no API method of the client has been invoked
NoApi == [name |-> "", key |-> None]

\* the client after its constructor
ClientInit ==
  /\ now = 0
  /\ accessToken = NoToken
  /\ tokenExpiry = None
  /\ authPosts = 0
  /\ lastAuth = [access_token |-> NoToken, expires_in |-> 0]
  /\ gt = "idle"
  /\ pc = [c \in Calls |-> "idle"]
  /\ op = [c \in Calls |-> NoOp]
  /\ token = [c \in Calls |-> NoToken]
  /\ cached = [c \in Calls |-> FALSE]
  /\ tokenExp = [c \in Calls |-> None]
  /\ attempt = [c \in Calls |-> 0]
  /\ sends = [c \in Calls |-> 0]
  /\ delays = [c \in Calls |-> <<>>]
  /\ lastFail = [c \in Calls |-> NoFailure]
  /\ wakeAt = [c \in Calls |-> 0]
  /\ err = [c \in Calls |-> NoError]
  /\ sent = [c \in Calls |-> None]

\* a constructed client that nothing has called yet
Init ==
  /\ ClientInit
  /\ fin = NoFailure
  /\ fout = None
  /\ credentials = TRUE
  /\ siigoClient = TRUE
  /\ tool = [c \in Calls |-> NoTool]
  /\ result = [c \in Calls |-> NoResult]
  /\ api = [c \in Calls |-> NoApi]
  /\ started = TRUE

\* ------------------------------------------------------------------ actions
\* a cache test that subtracts the safety margin a second time
TokenIsValid_DoubleMargin ==
  /\ accessToken # NoToken
  /\ tokenExpiry # None
  /\ now < tokenExpiry[1] - SAFETY_MARGIN_MS

\* a cache test that takes a token at the instant of its expiry
TokenIsValid_Inclusive ==
  /\ accessToken # NoToken
  /\ tokenExpiry # None
  /\ now <= tokenExpiry[1]

\* the cache test of authenticate()
TokenIsValid ==
  /\ accessToken # NoToken
  /\ tokenExpiry # None
  /\ now < tokenExpiry[1]

\* an expiry without the safety margin
ExpiryOf_NoMargin(expires_in) == now + (expires_in * 1000)

\* new Date(Date.now() + expires_in * 1000 - 60000)
ExpiryOf(expires_in) == now + (expires_in * 1000) - SAFETY_MARGIN_MS

\* the id of the token the auth endpoint issues next
FreshToken == lastAuth.access_token + 1

\* the failures the POST /auth request can end with
AuthFailures ==
  { NoResponse,
    HttpError(401, NoHeader, BodyEmpty),
    HttpError(503, NoHeader, BodyText) }

\* this.client.request(...) of the loop body is issued for call c, which has
\* obtained token tk (cached with expiry ex); at is the value of `attempt`
SendAttempt(c, tk, ex, at, n) ==
  /\ pc' = [pc EXCEPT ![c] = "request"]
  /\ token' = [token EXCEPT ![c] = tk]
  /\ tokenExp' = [tokenExp EXCEPT ![c] = ex]
  /\ attempt' = [attempt EXCEPT ![c] = at]
  /\ sends' = [sends EXCEPT ![c] = n]
  /\ lastFail' = [lastFail EXCEPT ![c] = NoFailure]

\* the request config of one attempt: method, url and the headers
\* {Authorization: `Bearer ${token}`, ...headers}; the record o stands for the
\* arguments method, endpoint, data, params and headers of request()
Transmit(c, o, tk) ==
  sent' = [sent EXCEPT ![c] =
    Some([method |-> o.method, url |-> o.endpoint, Authorization |-> tk,
          IdempotencyKey |-> o.idempotencyKey])]

\* a request() that waits while the POST /auth of another call is in flight
StartRequest_SingleFlight(c, o) ==
  /\ pc[c] = "idle"
  /\ op' = [op EXCEPT ![c] = o]
  /\ IF TokenIsValid
     THEN /\ SendAttempt(c, accessToken, tokenExpiry, 0, 1)
          /\ Transmit(c, o, accessToken)
          /\ cached' = [cached EXCEPT ![c] = TRUE]
          /\ UNCHANGED authPosts
     ELSE /\ \A d \in Calls \ {c} : pc[d] # "auth"
          /\ authPosts < MaxAuth
          /\ authPosts' = authPosts + 1
          /\ pc' = [pc EXCEPT ![c] = "auth"]
          /\ UNCHANGED <<token, cached, tokenExp, attempt, sends, lastFail, sent>>
  /\ UNCHANGED <<now, cacheVars, gt, delays, wakeAt, err>>

\* request(method, endpoint, ...) is called: authenticate() either returns the
\* cached token, and attempt 0 is sent, or posts to /auth
StartRequest(c, o) ==
  /\ pc[c] = "idle"
  /\ op' = [op EXCEPT ![c] = o]
  /\ IF TokenIsValid
     THEN /\ SendAttempt(c, accessToken, tokenExpiry, 0, 1)
          /\ Transmit(c, o, accessToken)
          /\ cached' = [cached EXCEPT ![c] = TRUE]
          /\ UNCHANGED authPosts
     ELSE /\ authPosts < MaxAuth
          /\ authPosts' = authPosts + 1
          /\ pc' = [pc EXCEPT ![c] = "auth"]
          /\ UNCHANGED <<token, cached, tokenExp, attempt, sends, lastFail, sent>>
  /\ UNCHANGED <<now, cacheVars, gt, delays, wakeAt, err>>

\* request() called on its own, outside a tool invocation
Request(c, o) == StartRequest(c, o) /\ UNCHANGED <<fmtVars, hostVars>>

\* the POST /auth of authenticate() succeeds: the cache is replaced, the new
\* token is returned to request() and attempt 0 is sent
AuthOk(c, expires_in) ==
  /\ pc[c] = "auth"
  /\ accessToken' = FreshToken
  /\ tokenExpiry' = Some(ExpiryOf(expires_in))
  /\ lastAuth' = [access_token |-> FreshToken, expires_in |-> expires_in]
  /\ SendAttempt(c, accessToken', tokenExpiry', 0, 1)
  /\ Transmit(c, op[c], accessToken')
  /\ UNCHANGED <<now, authPosts, gt, op, cached, delays, wakeAt, err>>
  /\ UNCHANGED <<fmtVars, hostVars>>

\* an authenticate() that drops the cached token when its POST /auth fails
AuthFail_ClearsCache(c, f) ==
  /\ pc[c] = "auth"
  /\ pc' = [pc EXCEPT ![c] = "raised"]
  /\ lastFail' = [lastFail EXCEPT ![c] = f]
  /\ err' = [err EXCEPT ![c] =
       [type |-> "AxiosError", message |-> <<f.message>>, statusCode |-> None,
        endpoint |-> None, method |-> None]]
  /\ accessToken' = NoToken
  /\ tokenExpiry' = None
  /\ UNCHANGED <<now, lastAuth, authPosts, gt, op, token, cached, tokenExp, attempt,
                 sends, delays, wakeAt, sent>>
  /\ UNCHANGED <<fmtVars, hostVars>>

\* the POST /auth of authenticate() fails: the AxiosError leaves request()
\* as it is (line 133 is outside the try block)
AuthFail(c, f) ==
  /\ pc[c] = "auth"
  /\ pc' = [pc EXCEPT ![c] = "raised"]
  /\ lastFail' = [lastFail EXCEPT ![c] = f]
  /\ err' = [err EXCEPT ![c] =
       [type |-> "AxiosError", message |-> <<f.message>>, statusCode |-> None,
        endpoint |-> None, method |-> None]]
  /\ UNCHANGED <<now, cacheVars, authPosts, gt, op, token, cached, tokenExp, attempt,
                 sends, delays, wakeAt, sent>>
  /\ UNCHANGED <<fmtVars, hostVars>>

\* an attempt succeeds: response.data is returned
RespOk(c) ==
  /\ pc[c] = "request"
  /\ pc' = [pc EXCEPT ![c] = "returned"]
  /\ UNCHANGED <<now, cacheVars, authPosts, gt, op, token, cached, tokenExp, attempt,
                 sends, delays, lastFail, wakeAt, err, sent>>
  /\ UNCHANGED <<fmtVars, hostVars>>

\* a normalized error whose statusCode is set without asking for a response
NormalizedError_StatusAlways(c, f, text) ==
  [type |-> "Error", message |-> <<"Siigo API Error: ">> \o text,
   statusCode |-> Some(f.status),
   endpoint |-> Some(op[c].endpoint), method |-> Some(op[c].method)]

\* the error `new Error("Siigo API Error: ...")` with its added context
NormalizedError(c, f, text) ==
  [type |-> "Error", message |-> <<"Siigo API Error: ">> \o text,
   statusCode |-> IF f.hasResponse THEN Some(f.status) ELSE None,
   endpoint |-> Some(op[c].endpoint), method |-> Some(op[c].method)]

\* the TypeError formatErrorMessage throws inside the catch block
FormatTypeError(text) ==
  [type |-> "TypeError", message |-> text, statusCode |-> None,
   endpoint |-> None, method |-> None]

\* an attempt fails with an AxiosError: the catch block of request()
RespFail(c, f) ==
  /\ pc[c] = "request"
  /\ lastFail' = [lastFail EXCEPT ![c] = f]
  /\ LET formatted == formatErrorMessage(f)
         \* axiosError.response?.headers?.['retry-after']
         retryAfter == IF f.hasResponse THEN f.retryAfter ELSE NoHeader
         delay == getRetryDelay(attempt[c], retryAfter)
     IN IF ShouldRetry(attempt[c], f)
        THEN IF formatted.throws
             THEN \* thrown while building the log line
                  /\ pc' = [pc EXCEPT ![c] = "raised"]
                  /\ err' = [err EXCEPT ![c] = FormatTypeError(formatted.text)]
                  /\ UNCHANGED <<delays, wakeAt>>
             ELSE /\ pc' = [pc EXCEPT ![c] = "sleep"]
                  /\ delays' = [delays EXCEPT ![c] = Append(@,
                       [ms |-> delay,
                        retryAfterSeconds |-> RetryAfterSeconds(retryAfter)])]
                  /\ wakeAt' = [wakeAt EXCEPT ![c] = now + TimerDelay(delay)]
                  /\ UNCHANGED err
        ELSE /\ pc' = [pc EXCEPT ![c] = "raised"]
             /\ err' = [err EXCEPT ![c] =
                  IF formatted.throws THEN FormatTypeError(formatted.text)
                  ELSE NormalizedError(c, f, formatted.text)]
             /\ UNCHANGED <<delays, wakeAt>>
  /\ UNCHANGED <<now, cacheVars, authPosts, gt, op, token, cached, tokenExp, attempt,
                 sends, sent>>
  /\ UNCHANGED <<fmtVars, hostVars>>

\* an attempt throws something that is not an AxiosError: lastError = error
RespThrow(c) ==
  /\ pc[c] = "request"
  /\ pc' = [pc EXCEPT ![c] = "raised"]
  /\ err' = [err EXCEPT ![c] =
       [type |-> "Other", message |-> <<"non-axios error">>, statusCode |-> None,
        endpoint |-> None, method |-> None]]
  /\ UNCHANGED <<now, cacheVars, authPosts, gt, op, token, cached, tokenExp, attempt,
                 sends, delays, lastFail, wakeAt, sent>>
  /\ UNCHANGED <<fmtVars, hostVars>>

\* a loop that does not wait for the timer of sleep(delay)
Wake_Early(c) ==
  /\ pc[c] = "sleep"
  /\ IF attempt[c] + 1 <= MAX_RETRIES
     THEN /\ SendAttempt(c, token[c], tokenExp[c], attempt[c] + 1, sends[c] + 1)
          /\ Transmit(c, op[c], token[c])
          /\ UNCHANGED err
     ELSE /\ pc' = [pc EXCEPT ![c] = "raised"]
          /\ attempt' = [attempt EXCEPT ![c] = @ + 1]
          /\ lastFail' = [lastFail EXCEPT ![c] = NoFailure]
          /\ err' = [err EXCEPT ![c] =
               [type |-> "Error", message |-> <<"Unknown error occurred">>,
                statusCode |-> None, endpoint |-> None, method |-> None]]
          /\ UNCHANGED <<token, tokenExp, sends, sent>>
  /\ UNCHANGED <<now, cacheVars, authPosts, gt, op, cached, delays, wakeAt>>
  /\ UNCHANGED <<fmtVars, hostVars>>

\* a sleep whose promise is never resolved: the timer fires and the call
\* stays where it is
Wake_Lost(c) ==
  /\ pc[c] = "sleep"
  /\ now >= wakeAt[c]
  /\ UNCHANGED <<now, cacheVars, authPosts, gt, callVars>>
  /\ UNCHANGED <<fmtVars, hostVars>>

\* a loop that reads the token from the cache again before every retry
Wake_Reauth(c) ==
  /\ pc[c] = "sleep"
  /\ now >= wakeAt[c]
  /\ IF attempt[c] + 1 <= MAX_RETRIES
     THEN /\ SendAttempt(c, accessToken, tokenExpiry, attempt[c] + 1, sends[c] + 1)
          /\ Transmit(c, op[c], accessToken)
          /\ UNCHANGED err
     ELSE /\ pc' = [pc EXCEPT ![c] = "raised"]
          /\ attempt' = [attempt EXCEPT ![c] = @ + 1]
          /\ lastFail' = [lastFail EXCEPT ![c] = NoFailure]
          /\ err' = [err EXCEPT ![c] =
               [type |-> "Error", message |-> <<"Unknown error occurred">>,
                statusCode |-> None, endpoint |-> None, method |-> None]]
          /\ UNCHANGED <<token, tokenExp, sends, sent>>
  /\ UNCHANGED <<now, cacheVars, authPosts, gt, op, cached, delays, wakeAt>>
  /\ UNCHANGED <<fmtVars, hostVars>>

\* the timer of sleep(delay) fires: `continue`, attempt++ and the next attempt
\* is sent with the token obtained before the loop
Wake(c) ==
  /\ pc[c] = "sleep"
  /\ now >= wakeAt[c]
  /\ IF attempt[c] + 1 <= MAX_RETRIES
     THEN /\ SendAttempt(c, token[c], tokenExp[c], attempt[c] + 1, sends[c] + 1)
          /\ Transmit(c, op[c], token[c])
          /\ UNCHANGED err
     ELSE \* the loop ends with lastError = null
          /\ pc' = [pc EXCEPT ![c] = "raised"]
          /\ attempt' = [attempt EXCEPT ![c] = @ + 1]
          /\ lastFail' = [lastFail EXCEPT ![c] = NoFailure]
          /\ err' = [err EXCEPT ![c] =
               [type |-> "Error", message |-> <<"Unknown error occurred">>,
                statusCode |-> None, endpoint |-> None, method |-> None]]
          /\ UNCHANGED <<token, tokenExp, sends, sent>>
  /\ UNCHANGED <<now, cacheVars, authPosts, gt, op, cached, delays, wakeAt>>
  /\ UNCHANGED <<fmtVars, hostVars>>

\* the caller has consumed the result; the locals of the call are gone
EndCall(c) ==
  /\ pc[c] \in {"returned", "raised"}
  /\ pc' = [pc EXCEPT ![c] = "idle"]
  /\ op' = [op EXCEPT ![c] = NoOp]
  /\ token' = [token EXCEPT ![c] = NoToken]
  /\ cached' = [cached EXCEPT ![c] = FALSE]
  /\ tokenExp' = [tokenExp EXCEPT ![c] = None]
  /\ attempt' = [attempt EXCEPT ![c] = 0]
  /\ sends' = [sends EXCEPT ![c] = 0]
  /\ delays' = [delays EXCEPT ![c] = <<>>]
  /\ lastFail' = [lastFail EXCEPT ![c] = NoFailure]
  /\ wakeAt' = [wakeAt EXCEPT ![c] = 0]
  /\ err' = [err EXCEPT ![c] = NoError]
  /\ sent' = [sent EXCEPT ![c] = None]
  /\ UNCHANGED <<now, cacheVars, authPosts, gt>>

\* the result of a call made outside a tool invocation is consumed
Done(c) == EndCall(c) /\ UNCHANGED <<fmtVars, hostVars>>

\* getToken() is called: it posts to /auth whatever the cache holds
GetToken ==
  /\ gt = "idle"
  /\ authPosts < MaxAuth
  /\ gt' = "auth"
  /\ authPosts' = authPosts + 1
  /\ UNCHANGED <<now, cacheVars, callVars>>
  /\ UNCHANGED <<fmtVars, hostVars>>

\* a getToken() that leaves a cached token that is still valid in place
GetTokenOk_KeepValid(expires_in) ==
  /\ gt = "auth"
  /\ gt' = "idle"
  /\ IF TokenIsValid
     THEN UNCHANGED <<accessToken, tokenExpiry>>
     ELSE /\ accessToken' = FreshToken
          /\ tokenExpiry' = Some(ExpiryOf(expires_in))
  /\ lastAuth' = [access_token |-> FreshToken, expires_in |-> expires_in]
  /\ UNCHANGED <<now, authPosts, callVars>>
  /\ UNCHANGED <<fmtVars, hostVars>>

\* a getToken() that stores the new token and leaves the cached expiry
GetTokenOk_TokenOnly(expires_in) ==
  /\ gt = "auth"
  /\ gt' = "idle"
  /\ accessToken' = FreshToken
  /\ lastAuth' = [access_token |-> FreshToken, expires_in |-> expires_in]
  /\ UNCHANGED <<now, tokenExpiry, authPosts, callVars>>
  /\ UNCHANGED <<fmtVars, hostVars>>

\* the POST /auth of getToken() succeeds: the cache is replaced
GetTokenOk(expires_in) ==
  /\ gt = "auth"
  /\ gt' = "idle"
  /\ accessToken' = FreshToken
  /\ tokenExpiry' = Some(ExpiryOf(expires_in))
  /\ lastAuth' = [access_token |-> FreshToken, expires_in |-> expires_in]
  /\ UNCHANGED <<now, authPosts, callVars>>
  /\ UNCHANGED <<fmtVars, hostVars>>

\* the POST /auth of getToken() fails
GetTokenFail ==
  /\ gt = "auth"
  /\ gt' = "idle"
  /\ UNCHANGED <<now, cacheVars, authPosts, callVars>>
  /\ UNCHANGED <<fmtVars, hostVars>>

\* the API methods of the client the headers are examined on: the request
\* they make and whether they take an idempotencyKey argument
ApiMethods ==
  [ createInvoice |->
      [method |-> "POST", endpoint |-> "/v1/invoices", keyed |-> TRUE],
    createCreditNote |->
      [method |-> "POST", endpoint |-> "/v1/credit-notes", keyed |-> TRUE],
    createVoucher |->
      [method |-> "POST", endpoint |-> "/v1/vouchers", keyed |-> TRUE],
    createPaymentReceipt |->
      [method |-> "POST", endpoint |-> "/v1/payment-receipts", keyed |-> TRUE],
    createJournal |->
      [method |-> "POST", endpoint |-> "/v1/journals", keyed |-> TRUE],
    createInvoiceBatch |->
      [method |-> "POST", endpoint |-> "/v1/invoices/batch", keyed |-> FALSE],
    createPurchase |->
      [method |-> "POST", endpoint |-> "/v1/purchases", keyed |-> FALSE],
    listProducts |->
      [method |-> "GET", endpoint |-> "/v1/products", keyed |-> FALSE] ]

\* the idempotencyKey argument: undefined, the empty string or a key
IdempotencyKeys == {None, Some(""), Some("k1")}

\* a header that is set whenever the argument is defined
ExtraHeaders_Defined(idempotencyKey) ==
  IF idempotencyKey # None THEN Some(idempotencyKey[1]) ELSE None

\* the local `headers` of a create method: Idempotency-Key is set when the
\* argument is truthy
ExtraHeaders(idempotencyKey) ==
  IF idempotencyKey # None /\ idempotencyKey[1] # ""
  THEN Some(idempotencyKey[1])
  ELSE None

\* the arguments with which API method m calls request()
ApiOp(m, idempotencyKey) ==
  [method |-> ApiMethods[m].method, endpoint |-> ApiMethods[m].endpoint,
   idempotencyKey |-> IF ApiMethods[m].keyed THEN ExtraHeaders(idempotencyKey)
                      ELSE None]

\* API method m of the client is called; only the keyed methods have an
\* idempotencyKey parameter
ApiCall(c, m, idempotencyKey) ==
  /\ ApiMethods[m].keyed \/ idempotencyKey = None
  /\ StartRequest(c, ApiOp(m, idempotencyKey))
  /\ api' = [api EXCEPT ![c] = [name |-> m, key |-> idempotencyKey]]
  /\ UNCHANGED <<fmtVars, credentials, siigoClient, tool, result, started>>

\* the promise of the API method settles and its caller has consumed it
ApiDone(c) ==
  /\ api[c] # NoApi
  /\ EndCall(c)
  /\ api' = [api EXCEPT ![c] = NoApi]
  /\ UNCHANGED <<fmtVars, credentials, siigoClient, tool, result, started>>

\* the tools of the registry the hosting layer is examined on: whether
\* handleTool passes the arguments to validateInput, the first issue of the
\* arguments that do not satisfy the tool's schema, and the request made
Registry ==
  [ siigo_list_products |->
      [ validated |-> FALSE, issue |-> "page: Expected number, received string",
        op |-> [method |-> "GET", endpoint |-> "/v1/products",
                idempotencyKey |-> None] ],
    siigo_create_invoice |->
      [ validated |-> TRUE, issue |-> "document_id: Required",
        op |-> [method |-> "POST", endpoint |-> "/v1/invoices",
                idempotencyKey |-> Some("k1")] ] ]

\* the names a tool invocation may carry: the registry and a name outside it
ToolNames == DOMAIN Registry \cup {"siigo_no_such_tool"}

\* the handler awaits handleTool
Pending == [state |-> "pending", isError |-> FALSE, text |-> <<>>]

\* the result of the try branch: the response data as text, no isError
OkResult == [state |-> "done", isError |-> FALSE, text |-> <<"response.data">>]

\* an error result that is not flagged as an error
ErrorResult_NoFlag(message) ==
  [state |-> "done", isError |-> FALSE, text |-> <<"Error: ">> \o message]

\* the result of the catch branch of the call-tool handler
ErrorResult(message) ==
  [state |-> "done", isError |-> TRUE, text |-> <<"Error: ">> \o message]

\* main(): the server is created, its two handlers are set and it is connected
\* to the stdio transport; the environment is not looked at
Main ==
  /\ ~started
  /\ started' = TRUE
  /\ UNCHANGED <<now, cacheVars, authPosts, gt, callVars, fmtVars,
                 credentials, siigoClient, tool, result, api>>

\* the call-tool handler receives an invocation: handleTool runs getClient(),
\* the switch and validateInput, and either raises at once, which the handler
\* turns into an error result, or calls the client
CallTool(c, name, argsValid) ==
  /\ started
  /\ pc[c] = "idle"
  /\ result[c].state # "pending"
  /\ tool' = [tool EXCEPT ![c] = [name |-> name, argsValid |-> argsValid]]
  /\ IF ~siigoClient /\ ~credentials
     THEN /\ result' = [result EXCEPT ![c] = ErrorResult(
               <<"SIIGO_USERNAME and SIIGO_ACCESS_KEY environment variables are required">>)]
          /\ UNCHANGED <<siigoClient, now, cacheVars, authPosts, gt, callVars>>
     ELSE /\ siigoClient' = TRUE
          /\ IF name \notin DOMAIN Registry
             THEN /\ result' = [result EXCEPT ![c] =
                       ErrorResult(<<"Unknown tool: ", name>>)]
                  /\ UNCHANGED <<now, cacheVars, authPosts, gt, callVars>>
             ELSE IF Registry[name].validated /\ ~argsValid
             THEN /\ result' = [result EXCEPT ![c] =
                       ErrorResult(<<"Validation error: ", Registry[name].issue>>)]
                  /\ UNCHANGED <<now, cacheVars, authPosts, gt, callVars>>
             ELSE /\ StartRequest(c, Registry[name].op)
                  /\ result' = [result EXCEPT ![c] = Pending]
  /\ UNCHANGED <<fmtVars, credentials, api, started>>

\* handleTool settles: the handler returns the response data, or catches the
\* error the client raised and returns it as an error result
ToolDone(c) ==
  /\ result[c].state = "pending"
  /\ EndCall(c)
  /\ result' = [result EXCEPT ![c] =
       IF pc[c] = "returned" THEN OkResult ELSE ErrorResult(err[c].message)]
  /\ UNCHANGED <<fmtVars, credentials, siigoClient, tool, api, started>>

\* time passes until the timer of the sleeping call c is due
Elapse(c) ==
  /\ pc[c] = "sleep"
  /\ now < wakeAt[c]
  /\ now' = wakeAt[c]
  /\ UNCHANGED <<cacheVars, authPosts, gt, callVars>>
  /\ UNCHANGED <<fmtVars, hostVars>>

\* time passes
Tick(d) ==
  /\ now + d <= MaxTime
  /\ now' = now + d
  /\ UNCHANGED <<cacheVars, authPosts, gt, callVars>>
  /\ UNCHANGED <<fmtVars, hostVars>>

\* formatErrorMessage is applied to the error fin
Format ==
  /\ fout = None
  /\ fout' = Some(formatErrorMessage(fin))
  /\ UNCHANGED <<now, cacheVars, authPosts, gt, callVars, fin, hostVars>>

\* inputs of the specification Spec: one operation and one token lifetime,
\* every failure of Failures
RetryOps == {o \in Ops : o.method = "GET"}
RetryLifetimes == {61}

\* the retry engine under every upstream failure: one logical call at a time,
\* with getToken() running beside it
Next ==
  \/ \E c \in Solo, o \in RetryOps : Request(c, o)
  \/ \E c \in Solo, e \in RetryLifetimes : AuthOk(c, e)
  \/ \E c \in Solo, f \in AuthFailures : AuthFail(c, f)
  \/ \E c \in Solo : RespOk(c)
  \/ \E c \in Solo, f \in Failures : RespFail(c, f)
  \/ \E c \in Solo : RespThrow(c)
  \/ \E c \in Solo : Wake(c)
  \/ \E c \in Solo : Done(c)
  \/ GetToken
  \/ \E e \in RetryLifetimes : GetTokenOk(e)
  \/ GetTokenFail
  \/ \E d \in TickSteps : Tick(d)

Spec == Init /\ [][Next]_vars

\* inputs of the specification SpecToken: every operation and token lifetime,
\* one failure of each class (transport, transient, permanent)
TokenFailures ==
  { NoResponse,
    HttpError(503, NoHeader, BodyEmpty),
    HttpError(400, NoHeader, BodyErrors) }

\* the token cache under every lifetime: one logical call at a time, with
\* getToken() running beside it
NextToken ==
  \/ \E c \in Solo, o \in Ops : Request(c, o)
  \/ \E c \in Solo, e \in ExpiresIn : AuthOk(c, e)
  \/ \E c \in Solo, f \in AuthFailures : AuthFail(c, f)
  \/ \E c \in Solo : RespOk(c)
  \/ \E c \in Solo, f \in TokenFailures : RespFail(c, f)
  \/ \E c \in Solo : RespThrow(c)
  \/ \E c \in Solo : Wake(c)
  \/ \E c \in Solo : Done(c)
  \/ GetToken
  \/ \E e \in ExpiresIn : GetTokenOk(e)
  \/ GetTokenFail
  \/ \E d \in TickSteps : Tick(d)

SpecToken == Init /\ [][NextToken]_vars

\* an upstream that answers every API attempt with status 503, whatever the
\* headers and the body
Failures503 == {f \in Failures : f.hasResponse /\ f.status = 503}

Next503 ==
  \/ \E c \in Solo, o \in RetryOps : Request(c, o)
  \/ \E c \in Solo, e \in RetryLifetimes : AuthOk(c, e)
  \/ \E c \in Solo, f \in Failures503 : RespFail(c, f)
  \/ \E c \in Solo : Wake(c)
  \/ \E c \in Solo : Done(c)
  \/ \E d \in TickSteps : Tick(d)

Spec503 == Init /\ [][Next503]_vars

\* formatErrorMessage on its own, applied to one error of FormatInputs
InitFormat ==
  /\ ClientInit
  /\ fin \in FormatInputs
  /\ fout = None
  /\ credentials = TRUE
  /\ siigoClient = TRUE
  /\ tool = [c \in Calls |-> NoTool]
  /\ result = [c \in Calls |-> NoResult]
  /\ api = [c \in Calls |-> NoApi]
  /\ started = TRUE

NextFormat == Format

SpecFormat == InitFormat /\ [][NextFormat]_vars

\* calls made one after the other on one client whose POST /auth succeeds,
\* without getToken()
NextSeq ==
  \/ \E c \in Solo, o \in Ops : Request(c, o)
  \/ \E c \in Solo, e \in ExpiresIn : AuthOk(c, e)
  \/ \E c \in Solo : RespOk(c)
  \/ \E c \in Solo, f \in TokenFailures : RespFail(c, f)
  \/ \E c \in Solo : RespThrow(c)
  \/ \E c \in Solo : Wake(c)
  \/ \E c \in Solo : Done(c)
  \/ \E d \in TickSteps : Tick(d)

SpecSeq == Init /\ [][NextSeq]_vars

\* inputs of the specification SpecConc: a short and a long token lifetime,
\* a transient and a permanent failure, one failure of POST /auth
ConcLifetimes == {61, 86400}
ConcFailures ==
  { HttpError(503, NoHeader, BodyEmpty),
    HttpError(400, NoHeader, BodyErrors) }
ConcAuthFailures == { HttpError(401, NoHeader, BodyEmpty) }

\* time passes, up to MaxConcTime
TickConc(d) == now + d <= MaxConcTime /\ Tick(d)

\* two logical calls and getToken() interleaved on one client
NextConc ==
  \/ \E c \in Calls, o \in RetryOps : Request(c, o)
  \/ \E c \in Calls, e \in ConcLifetimes : AuthOk(c, e)
  \/ \E c \in Calls, f \in ConcAuthFailures : AuthFail(c, f)
  \/ \E c \in Calls : RespOk(c)
  \/ \E c \in Calls, f \in ConcFailures : RespFail(c, f)
  \/ \E c \in Calls : Wake(c)
  \/ \E c \in Calls : Done(c)
  \/ GetToken
  \/ \E e \in ConcLifetimes : GetTokenOk(e)
  \/ GetTokenFail
  \/ \E d \in TickSteps : TickConc(d)

SpecConc == Init /\ [][NextConc]_vars

\* the API methods of the client, one call at a time, with every key
NextApi ==
  \/ \E c \in Solo, m \in DOMAIN ApiMethods, k \in IdempotencyKeys : ApiCall(c, m, k)
  \/ \E c \in Solo, e \in RetryLifetimes : AuthOk(c, e)
  \/ \E c \in Solo : RespOk(c)
  \/ \E c \in Solo, f \in ConcFailures : RespFail(c, f)
  \/ \E c \in Solo : Wake(c)
  \/ \E c \in Solo : ApiDone(c)
  \/ \E d \in TickSteps : Tick(d)

SpecApi == Init /\ [][NextApi]_vars

\* Retry-After values at and below zero, and one of an hour
EdgeHeaders ==
  { Header(<<"0">>), Header(<<"-", "1">>), Header(<<"3", "6", "0", "0">>) }

\* retryable answers that carry one of them
EdgeFailures ==
  {HttpError(st, h, BodyEmpty) : st \in {429, 503}, h \in EdgeHeaders}

\* an upstream that answers with Retry-After values of EdgeHeaders
NextEdge ==
  \/ \E c \in Solo, o \in RetryOps : Request(c, o)
  \/ \E c \in Solo, e \in RetryLifetimes : AuthOk(c, e)
  \/ \E c \in Solo : RespOk(c)
  \/ \E c \in Solo, f \in EdgeFailures : RespFail(c, f)
  \/ \E c \in Solo : Wake(c)
  \/ \E c \in Solo : Done(c)
  \/ \E d \in TickSteps : Tick(d)

SpecEdge == Init /\ [][NextEdge]_vars

\* lifetimes around the safety margin of 60 s
ShortLifetimes == {30, 60, 61}

\* the token cache under lifetimes around the safety margin: one logical call
\* at a time, with getToken() running beside it
NextShort ==
  \/ \E c \in Solo, o \in RetryOps : Request(c, o)
  \/ \E c \in Solo, e \in ShortLifetimes : AuthOk(c, e)
  \/ \E c \in Solo, f \in ConcAuthFailures : AuthFail(c, f)
  \/ \E c \in Solo : RespOk(c)
  \/ \E c \in Solo, f \in ConcFailures : RespFail(c, f)
  \/ \E c \in Solo : Wake(c)
  \/ \E c \in Solo : Done(c)
  \/ GetToken
  \/ \E e \in ShortLifetimes : GetTokenOk(e)
  \/ GetTokenFail
  \/ \E d \in TickSteps : Tick(d)

SpecShort == Init /\ [][NextShort]_vars

\* one logical call from its start to its end, under every upstream failure
NextLive ==
  \/ \E c \in Solo, o \in RetryOps : Request(c, o)
  \/ \E c \in Solo, e \in RetryLifetimes : AuthOk(c, e)
  \/ \E c \in Solo, f \in AuthFailures : AuthFail(c, f)
  \/ \E c \in Solo : RespOk(c)
  \/ \E c \in Solo, f \in Failures : RespFail(c, f)
  \/ \E c \in Solo : RespThrow(c)
  \/ \E c \in Solo : Elapse(c)
  \/ \E c \in Solo : Wake(c)

\* every HTTP request completes (axios gives each 30 s at most) and every
\* timer fires; which answer a request gets is left to the upstream
LiveFairness ==
  \A c \in Solo :
    /\ WF_vars((\E e \in RetryLifetimes : AuthOk(c, e))
               \/ (\E f \in AuthFailures : AuthFail(c, f)))
    /\ WF_vars(RespOk(c) \/ (\E f \in Failures : RespFail(c, f)) \/ RespThrow(c))
    /\ WF_vars(Elapse(c))
    /\ WF_vars(Wake(c))

SpecLive == Init /\ [][NextLive]_vars /\ LiveFairness

\* a process that has loaded index.ts and not yet run main(), with or
\* without credentials in its environment
InitHost ==
  /\ ClientInit
  /\ fin = NoFailure
  /\ fout = None
  /\ credentials \in BOOLEAN
  /\ siigoClient = FALSE
  /\ tool = [c \in Calls |-> NoTool]
  /\ result = [c \in Calls |-> NoResult]
  /\ api = [c \in Calls |-> NoApi]
  /\ started = FALSE

\* the call-tool handler over the client: one tool invocation at a time
NextHost ==
  \/ Main
  \/ \E c \in Solo, t \in ToolNames, a \in BOOLEAN : CallTool(c, t, a)
  \/ \E c \in Solo, e \in RetryLifetimes : AuthOk(c, e)
  \/ \E c \in Solo, f \in AuthFailures : AuthFail(c, f)
  \/ \E c \in Solo : RespOk(c)
  \/ \E c \in Solo, f \in TokenFailures : RespFail(c, f)
  \/ \E c \in Solo : RespThrow(c)
  \/ \E c \in Solo : Wake(c)
  \/ \E c \in Solo : ToolDone(c)
  \/ \E d \in TickSteps : Tick(d)

SpecHost == InitHost /\ [][NextHost]_vars

TypeOK ==
  /\ now \in Nat
  /\ accessToken \in 0..MaxAuth
  /\ authPosts \in 0..MaxAuth
  /\ gt \in {"idle", "auth"}
  /\ \A c \in Calls :
       /\ pc[c] \in {"idle", "auth", "request", "sleep", "returned", "raised"}
       /\ attempt[c] \in Nat
       /\ sends[c] \in Nat
       /\ cached[c] \in BOOLEAN

\* ------------------------------------------------------------------- claims
\* the transition in which call c issues one more physical API attempt
Sent(c) == sends'[c] = sends[c] + 1

\* the transition in which the catch block of call c handles an AxiosError
Failed(c) == pc[c] = "request" /\ lastFail'[c] # lastFail[c]

\* the transition in which call c starts to sleep before a retry
Retried(c) == pc[c] = "request" /\ pc'[c] = "sleep"

\* C1: a logical call never issues more than MAX_RETRIES + 1 = 4 physical
\* API attempts, and its attempt index stays within 0..3
C1_AttemptBound ==
  \A c \in Calls : sends[c] <= 4 /\ attempt[c] \in 0..3

\* a call that has used its whole budget: four attempts, the last one failed
C1_Witness ==
  \E c \in Calls : pc[c] = "raised" /\ sends[c] = 4 /\ attempt[c] = 3

\* C2: every physical attempt, retries included, is sent while the current
\* time is strictly before the expiry cached with the token it carries
C2_AttemptCarriesValidToken ==
  [][\A c \in Calls :
       Sent(c) => (tokenExp'[c] # <<>> /\ now' < tokenExp'[c][1])]_vars

\* C3: token reuse: when the cache holds a token and the current time is
\* strictly before its expiry, authenticate() issues no HTTP request, returns
\* the cached token and leaves the cache unchanged
C3_TokenReuse ==
  [][\A c \in Calls :
       (/\ pc[c] = "idle" /\ pc'[c] # "idle"
        /\ accessToken # 0 /\ tokenExpiry # <<>> /\ now < tokenExpiry[1])
       => /\ authPosts' = authPosts
          /\ token'[c] = accessToken
          /\ accessToken' = accessToken
          /\ tokenExpiry' = tokenExpiry]_vars

\* a call that is using a token it took from the cache, after the only
\* POST /auth so far
C3_Witness ==
  \E c \in Calls :
    /\ cached[c] /\ pc[c] = "request" /\ sends[c] = 1
    /\ token[c] = accessToken /\ authPosts = 1

\* C4: token refresh: when no token is cached or the current time is at or
\* after the cached expiry, authenticate() issues exactly one POST /auth and,
\* on success, replaces the cache with the returned access_token and the expiry
\* response time + expires_in * 1000 - 60000, and returns the new token
C4_TokenRefresh ==
  [][\A c \in Calls :
       /\ (/\ pc[c] = "idle" /\ pc'[c] # "idle"
           /\ (accessToken = 0 \/ tokenExpiry = <<>> \/ now >= tokenExpiry[1]))
          => /\ authPosts' = authPosts + 1
             /\ pc'[c] = "auth"
             /\ sends'[c] = 0
       /\ (pc[c] = "auth" /\ pc'[c] = "request")
          => /\ authPosts' = authPosts
             /\ lastAuth' # lastAuth
             /\ accessToken' = lastAuth'.access_token
             /\ tokenExpiry' = <<now + lastAuth'.expires_in * 1000 - 60000>>
             /\ token'[c] = lastAuth'.access_token]_vars

\* a call that found no valid token in the cache and is using the token of
\* its own refresh, the second token issued, cached with expiry now + 1000
C4_Witness ==
  \E c \in Calls :
    /\ pc[c] = "request" /\ ~cached[c] /\ gt = "idle"
    /\ authPosts = 2 /\ token[c] = 2 /\ accessToken = 2
    /\ tokenExpiry = <<now + 1000>>

\* C5: a failed attempt with index k is followed by another attempt if and
\* only if k < 3 and the failure is retryable (no response at all, or a status
\* in {429, 500, 502, 503, 504}), whatever the body and headers of the response
C5_RetryDecision ==
  [][\A c \in Calls :
       Failed(c) =>
         (pc'[c] = "sleep" <=>
            (/\ attempt[c] < 3
             /\ (\/ ~lastFail'[c].hasResponse
                 \/ lastFail'[c].status \in {429, 500, 502, 503, 504})))]_vars

\* C6: when the upstream answers every attempt with status 503, the call
\* performs exactly 4 physical attempts and then raises a normalized error
\* whose statusCode is 503
C6_Exhaustion503 ==
  \A c \in Calls :
    /\ pc[c] # "returned"
    /\ pc[c] = "raised" =>
         /\ sends[c] = 4
         /\ err[c].type = "Error"
         /\ err[c].statusCode = <<503>>

\* C7: a response whose status is neither a success nor in {429, 500, 502,
\* 503, 504} ends the call at once: no further attempt, no sleep, no
\* re-authentication, and the error raised carries the upstream's formatted
\* error message
C7_PermanentFailure ==
  [][\A c \in Calls :
       (/\ Failed(c)
        /\ lastFail'[c].hasResponse
        /\ lastFail'[c].status \notin {429, 500, 502, 503, 504})
       => /\ pc'[c] = "raised"
          /\ sends'[c] = sends[c]
          /\ delays'[c] = delays[c]
          /\ authPosts' = authPosts
          /\ err'[c].type = "Error"
          /\ Head(err'[c].message) = "Siigo API Error: "
          /\ err'[c].statusCode = <<lastFail'[c].status>>]_vars

\* the delay passed to sleep() by the retry that call c has just started
LastDelay(c) == delays'[c][Len(delays'[c])].ms

\* C8: when the failed response has no Retry-After header, or one that does
\* not parse as an integer, the delay before the retry that follows attempt k
\* is exactly 1000 * 2^k ms: 1000, 2000, 4000 for k = 0, 1, 2
C8_BackoffSchedule ==
  [][\A c \in Calls :
       (/\ Retried(c)
        /\ (\/ ~lastFail'[c].hasResponse
            \/ ~lastFail'[c].retryAfter.present
            \/ ParseInt(lastFail'[c].retryAfter.value) = <<>>))
       => /\ Len(delays'[c]) = Len(delays[c]) + 1
          /\ LastDelay(c) = CASE attempt[c] = 0 -> 1000
                              [] attempt[c] = 1 -> 2000
                              [] attempt[c] = 2 -> 4000
                              [] OTHER -> -1]_vars

\* a call sleeping 4000 ms after its third attempt got an HTTP-date Retry-After
C8_Witness ==
  \E c \in Calls :
    /\ pc[c] = "sleep" /\ attempt[c] = 2
    /\ lastFail[c].hasResponse
    /\ lastFail[c].retryAfter = Header(<<"W", "e", "d", ",">>)
    /\ delays[c][3].ms = 4000

\* C9: when the response of a retried failure carries a Retry-After header
\* that parses as an integer n, the delay before the next attempt is exactly
\* n * 1000 ms, whatever the attempt index and the retryable status
C9_RetryAfterAuthoritative ==
  [][\A c \in Calls :
       (/\ Retried(c)
        /\ lastFail'[c].hasResponse
        /\ lastFail'[c].retryAfter.present
        /\ ParseInt(lastFail'[c].retryAfter.value) # <<>>)
       => /\ Len(delays'[c]) = Len(delays[c]) + 1
          /\ LastDelay(c) = ParseInt(lastFail'[c].retryAfter.value)[1] * 1000]_vars

\* a call sleeping 5000 ms after its third attempt got 503 with Retry-After: 5,
\* having slept -1000 ms after a first attempt that got Retry-After: -1
C9_Witness ==
  \E c \in Calls :
    /\ pc[c] = "sleep" /\ attempt[c] = 2
    /\ lastFail[c].status = 503
    /\ lastFail[c].retryAfter = Header(<<"5">>)
    /\ delays[c][3].ms = 5000
    /\ delays[c][1].ms = -1000

\* the delays of call c are strictly increasing and none exceeds 4000 ms
IncreasingAndBounded(c) ==
  /\ \A i \in 1..Len(delays[c]) : delays[c][i].ms <= 4000
  /\ \A i \in 1..(Len(delays[c]) - 1) : delays[c][i].ms < delays[c][i + 1].ms

\* C10 as stated: within one logical call the delays slept between attempts
\* are strictly increasing and none exceeds 1000 * 2^(MAX_RETRIES-1) = 4000 ms,
\* for every sequence of upstream responses
C10_IncreasingBoundedDelay ==
  \A c \in Calls : IncreasingAndBounded(c)

\* C10 amended: within one logical call, as long as no retried response carried
\* a Retry-After header that parses as an integer, the delays slept between
\* attempts are strictly increasing and none exceeds 4000 ms
C10_BackoffIncreasingBounded ==
  \A c \in Calls :
    (\A i \in 1..Len(delays[c]) : delays[c][i].retryAfterSeconds = <<>>)
    => IncreasingAndBounded(c)

\* a call that has slept three backoff delays
C10_Witness ==
  \E c \in Calls :
    /\ Len(delays[c]) = 3
    /\ \A i \in 1..3 : delays[c][i].retryAfterSeconds = <<>>
    /\ delays[c][1].ms < delays[c][3].ms

\* C11: every failure a logical call raises to its caller is a normalized
\* error: an Error whose message starts with "Siigo API Error: ", carrying the
\* path and the method of the call and, when a response exists, its status
C11_RaisedIsNormalized ==
  \A c \in Calls :
    pc[c] = "raised" =>
      /\ err[c].type = "Error"
      /\ Len(err[c].message) >= 1 /\ err[c].message[1] = "Siigo API Error: "
      /\ err[c].endpoint = Some(op[c].endpoint)
      /\ err[c].method = Some(op[c].method)
      /\ lastFail[c].hasResponse => err[c].statusCode = Some(lastFail[c].status)

\* formatErrorMessage has been applied to fin and this is what it made of it
Formatted == fout # None
Output == fout[1]

\* the body has a string Status and a string Message
RateLimitShape(data) ==
  /\ data.type = "object"
  /\ data.Status.type = "string"
  /\ data.Message.type = "string"

\* the body has an Errors array
ErrorsShape(data) == data.type = "object" /\ data.hasErrors

\* the message the specification gives for each Errors array of ErrorsFields
ListRendering(errors) ==
  CASE errors = <<>> -> <<>>
    [] errors = <<ErrorWithDetail>> ->
         <<"ERR1", ": ", "Bad field", " - ", "code required">>
    [] errors = <<ErrorNoDetail>> ->
         <<"ERR2", ": ", "Not found">>
    [] errors = <<ErrorWithDetail, ErrorNoDetail>> ->
         <<"ERR1", ": ", "Bad field", " - ", "code required", "; ",
           "ERR2", ": ", "Not found">>

\* C12: formatErrorMessage never throws, and for every response body that
\* matches neither error shape (a plain-text string, a number and an array
\* included) it returns the raw serialized body
C12_RawFallbackTotal ==
  Formatted =>
    /\ ~Output.throws
    /\ (/\ fin.hasResponse
        /\ fin.data.type # "empty"
        /\ ~RateLimitShape(fin.data)
        /\ ~ErrorsShape(fin.data))
       => Output.text = <<fin.data.text>>

\* C13: an object body is formatted as "<Status>: <Message>" exactly when it
\* has a string Status and a string Message; otherwise it is formatted by the
\* next branch that matches: the list of errors, then the raw serialization
C13_OrderedShapeMatching ==
  (Formatted /\ fin.hasResponse /\ fin.data.type = "object") =>
    /\ (Output.text = <<Render(fin.data.Status), ": ", Render(fin.data.Message)>>)
         <=> RateLimitShape(fin.data)
    /\ ~RateLimitShape(fin.data) =>
         Output.text = IF ErrorsShape(fin.data)
                       THEN ListRendering(fin.data.Errors)
                       ELSE <<fin.data.text>>

\* C14: for a body with an Errors array that does not have the rate-limit
\* shape the message is the entries rendered in order as "<Code>: <Message>",
\* with " - <Detail>" appended for the entries that have one, joined with "; "
C14_ErrorsListRendering ==
  (/\ Formatted
   /\ fin.hasResponse
   /\ ErrorsShape(fin.data)
   /\ ~RateLimitShape(fin.data))
  => /\ ~Output.throws
     /\ Output.text = ListRendering(fin.data.Errors)

\* the failure has no response body: no response, or a response with no data
NoBody == ~fin.hasResponse \/ fin.data.type = "empty"

\* C15: when the failure has no response body the message is
\* "HTTP <status>: <transport message>", with the status of the response if
\* there is one and "undefined" otherwise
C15_NoBodyFallback ==
  (Formatted /\ NoBody) =>
    /\ ~Output.throws
    /\ Output.text =
         << "HTTP ",
            IF fin.hasResponse
            THEN (CASE fin.status = 400 -> "400"
                    [] fin.status = 429 -> "429"
                    [] fin.status = 503 -> "503")
            ELSE "undefined",
            ": ", fin.message >>

\* a 503 response without data has been formatted from the transport message
C15_Witness ==
  /\ fin = HttpError(503, NoHeader, BodyEmpty)
  /\ fout = Some([throws |-> FALSE,
                  text |-> <<"HTTP ", "503", ": ", "Request failed with status code">>])

\* the transition in which the call-tool handler receives an invocation in
\* slot c
Invoked(c) ==
  /\ pc[c] = "idle"
  /\ result[c].state # "pending"
  /\ <<tool[c], result[c], pc[c]>>' # <<tool[c], result[c], pc[c]>>

\* C16: on a server with credentials, an invocation of a tool of the registry
\* with arguments that do not satisfy the tool's input shape ends at once
\* with an error result "Error: Validation error: <path>: <issue>", and no
\* HTTP request (neither POST /auth nor an API attempt) is issued for it
C16_ValidationPrecedesNetwork ==
  [][\A c \in Calls :
       (/\ credentials
        /\ Invoked(c)
        /\ tool'[c].name \in DOMAIN Registry
        /\ ~tool'[c].argsValid)
       => /\ result'[c].state = "done"
          /\ result'[c].isError
          /\ result'[c].text =
               <<"Error: ", "Validation error: ", Registry[tool'[c].name].issue>>
          /\ pc'[c] = "idle"
          /\ authPosts' = authPosts
          /\ sends'[c] = 0]_vars

\* C17: whenever handleTool raises (missing credentials, unknown tool name,
\* validation error, or an error raised by the client) the call-tool handler
\* returns a result with isError = TRUE whose text is "Error: " followed by
\* the message of the error; a call that returns gives a result without
\* isError; and after every result the handler accepts the next invocation
C17_HandlerCatchesEveryError ==
  /\ [][\A c \in Calls :
          /\ (Invoked(c) /\ ~siigoClient /\ ~credentials)
             => result'[c] =
                  [state |-> "done", isError |-> TRUE,
                   text |-> <<"Error: ",
                     "SIIGO_USERNAME and SIIGO_ACCESS_KEY environment variables are required">>]
          /\ (Invoked(c) /\ credentials /\ tool'[c].name \notin DOMAIN Registry)
             => result'[c] =
                  [state |-> "done", isError |-> TRUE,
                   text |-> <<"Error: ", "Unknown tool: ", tool'[c].name>>]
          /\ (Invoked(c) /\ pc'[c] = "idle")
             => /\ result'[c].state = "done"
                /\ result'[c].isError
                /\ result'[c].text[1] = "Error: "
          /\ (result[c].state = "pending" /\ pc[c] = "raised" /\ pc'[c] = "idle")
             => result'[c] =
                  [state |-> "done", isError |-> TRUE,
                   text |-> <<"Error: ">> \o err[c].message]
          /\ (result[c].state = "pending" /\ pc[c] = "returned" /\ pc'[c] = "idle")
             => result'[c].state = "done" /\ ~result'[c].isError]_vars
  /\ [](\A c \in Solo :
          result[c].state = "done"
          => ENABLED (\E t \in ToolNames, a \in BOOLEAN : CallTool(c, t, a)))

\* the handler has returned the error of a call that got 503 on its last
\* attempt, after the retries were used up
C17_Witness ==
  \E c \in Calls :
    /\ tool[c].name = "siigo_list_products"
    /\ result[c] =
         [state |-> "done", isError |-> TRUE,
          text |-> <<"Error: ", "Siigo API Error: ", "HTTP ", "503", ": ",
                     "Request failed with status code">>]

\* the cache holds a token whose cached expiry is still in the future
CacheValid ==
  /\ accessToken # NoToken
  /\ tokenExpiry # None
  /\ now < tokenExpiry[1]

\* the transition in which call c starts
Started(c) == pc[c] = "idle" /\ pc'[c] # "idle"

\* C18: in a sequence of calls made one after the other, a POST /auth is
\* issued only by a call that starts when the cached token is not valid: as
\* long as the first token is valid exactly one POST /auth has been issued,
\* and neither a call that starts while the cached token is valid nor any of
\* its attempts, retries and failures issues another
C18_SingleAuthPerWindow ==
  /\ []((CacheValid /\ accessToken = 1) => authPosts = 1)
  /\ [][/\ \A c \in Calls : (Started(c) /\ CacheValid) => authPosts' = authPosts
        /\ (\A c \in Calls : ~Started(c)) => authPosts' = authPosts]_vars

\* a second call that started on the cached token, used all four attempts
\* and failed, with one POST /auth issued in total
C18_Witness ==
  \E c \in Calls :
    /\ cached[c] /\ pc[c] = "raised" /\ sends[c] = 4
    /\ accessToken = 1 /\ CacheValid
    /\ authPosts = 1

\* C19 as stated: a POST /auth is issued, and the cache replaced, only when
\* no token is cached or the cached token is no longer valid; no operation,
\* getToken() included, replaces a cached token that is still valid
C19_NewTokenOnlyWhenExpired ==
  [][/\ authPosts' # authPosts => ~CacheValid
     /\ <<accessToken, tokenExpiry>>' # <<accessToken, tokenExpiry>> => ~CacheValid]_vars

\* C19 amended: request() issues a POST /auth only when, as the call starts,
\* no token is cached or the cached token is no longer valid; getToken()
\* issues one whatever the cache holds, and its success replaces the cached
\* token and expiry by those of its response
C19_RequestAuthOnlyWhenExpired ==
  /\ [][\A c \in Calls :
          (pc[c] = "idle" /\ pc'[c] = "auth") => ~CacheValid]_vars
  /\ [][(authPosts' # authPosts /\ gt' = gt)
          => \E c \in Calls : pc[c] = "idle" /\ pc'[c] = "auth"]_vars
  /\ [][(gt = "auth" /\ lastAuth' # lastAuth)
          => /\ accessToken' = lastAuth'.access_token
             /\ tokenExpiry' = Some(now + lastAuth'.expires_in * 1000 - 60000)]_vars
  /\ []((gt = "idle" /\ authPosts < MaxAuth) => ENABLED GetToken)

\* getToken() has replaced a token that is still valid: the call in flight
\* obtained token 1 by its own POST /auth, its expiry is in the future, and
\* the cache holds token 2
C19_Witness ==
  \E c \in Calls :
    /\ pc[c] = "request" /\ ~cached[c] /\ token[c] = 1
    /\ tokenExp[c] # None /\ now < tokenExp[c][1]
    /\ accessToken = 2 /\ gt = "idle"

\* C20: the cached token and expiry are both absent or both those of the
\* latest successful POST /auth; they change only in a step in which a POST
\* /auth succeeds, and a cached token never becomes absent again
C20_CacheReplacedWholesale ==
  /\ [](\/ accessToken = NoToken /\ tokenExpiry = None
        \/ /\ accessToken # NoToken
           /\ accessToken = lastAuth.access_token
           /\ tokenExpiry # None
           /\ tokenExpiry[1] - (lastAuth.expires_in * 1000 - 60000) \in 0..now)
  /\ [][<<accessToken, tokenExpiry>>' # <<accessToken, tokenExpiry>>
         => \/ gt = "auth" /\ gt' = "idle"
            \/ \E c \in Calls : pc[c] = "auth" /\ pc'[c] = "request"]_vars
  /\ [][accessToken # NoToken
         => accessToken' # NoToken /\ tokenExpiry' # None]_vars

\* of two calls that started on an empty cache, one cached token 1 and got
\* 400 on its attempt, the POST /auth of the other failed; the cache still
\* holds token 1 and its expiry
C20_Witness ==
  \E c, d \in Calls :
    /\ c # d
    /\ pc[c] = "raised" /\ token[c] = 1 /\ err[c].statusCode = Some(400)
    /\ pc[d] = "raised" /\ err[d].type = "AxiosError"
    /\ accessToken = 1 /\ tokenExpiry # None

\* C21: a call that starts while no valid token is cached issues its own
\* POST /auth, and it can start whatever the other calls are doing, also while
\* the POST /auth of another call is in flight
C21_NoSingleFlight ==
  /\ [][\A c \in Calls :
          (Started(c) /\ ~CacheValid)
          => pc'[c] = "auth" /\ authPosts' = authPosts + 1]_vars
  /\ [](\A c \in Calls :
          (pc[c] = "idle" /\ ~CacheValid /\ authPosts < MaxAuth)
          => ENABLED (\E o \in RetryOps : Request(c, o)))

\* two overlapping calls have each issued their own POST /auth
C21_Witness ==
  /\ pc["c1"] = "auth" /\ pc["c2"] = "auth"
  /\ authPosts = 2
  /\ ~CacheValid

\* C22: every attempt of createInvoice, createCreditNote, createVoucher,
\* createPaymentReceipt and createJournal carries an Idempotency-Key header
\* exactly when the caller gave a non-empty key, and then the header is that
\* key; no attempt of another method carries the header
C22_IdempotencyKeyPassThrough ==
  \A c \in Calls :
    sent[c] # None =>
      LET header == sent[c][1].IdempotencyKey
          key == api[c].key
      IN IF api[c].name \in {"createInvoice", "createCreditNote", "createVoucher",
                            "createPaymentReceipt", "createJournal"}
         THEN /\ header # None <=> (key # None /\ key # Some(""))
              /\ header # None => header = key
         ELSE header = None

\* a retry of createInvoice carries the key its caller gave
C22_Witness ==
  \E c \in Calls :
    /\ api[c] = [name |-> "createInvoice", key |-> Some("k1")]
    /\ pc[c] = "request" /\ attempt[c] = 1
    /\ sent[c] # None /\ sent[c][1].IdempotencyKey = Some("k1")

\* C23: a process whose environment lacks SIIGO_USERNAME or SIIGO_ACCESS_KEY
\* fails at startup: its server is never connected and it never takes a tool
\* call
C23_MissingCredentialsFatal ==
  ~credentials =>
    /\ ~started
    /\ \A c \in Calls : tool[c] = NoTool /\ result[c] = NoResult

\* C24: attempt k+1 of a call is issued only from its sleep, after attempt k
\* failed and the timer of that sleep has run out; a call is at one place at
\* a time, so one request of it is in flight at most; after a successful
\* attempt nothing more is sent or slept; and every sleep is followed by an
\* attempt, so a settled call has slept once less than it has sent
C24_SequentialAttempts ==
  /\ [][\A c \in Calls :
          /\ (Sent(c) /\ sends[c] >= 1)
             => /\ pc[c] = "sleep"
                /\ lastFail[c] # NoFailure
                /\ Len(delays[c]) = sends[c]
                /\ now >= wakeAt[c]
                /\ attempt'[c] = attempt[c] + 1
          /\ pc[c] = "returned"
             => /\ pc'[c] \in {"returned", "idle"}
                /\ pc'[c] = "returned" => (sends'[c] = sends[c] /\ delays'[c] = delays[c])
          /\ Retried(c) => Len(delays'[c]) = Len(delays[c]) + 1]_vars
  /\ [](\A c \in Calls :
          /\ pc[c] \in {"request", "returned", "raised"} /\ sends[c] >= 1
             => Len(delays[c]) = sends[c] - 1
          /\ pc[c] = "sleep" => Len(delays[c]) = sends[c])

\* a call that returned on its third attempt, after two sleeps
C24_Witness ==
  \E c \in Calls :
    pc[c] = "returned" /\ sends[c] = 3 /\ Len(delays[c]) = 2

\* C25: when every HTTP request completes and every timer fires, a call that
\* has started eventually returns or raises, whatever the upstream answers
C25_Termination ==
  \A c \in Calls :
    (pc[c] \in {"auth", "request", "sleep"}) ~> (pc[c] \in {"returned", "raised"})

\* a call has raised after four attempts that got no response, having slept
\* 1000, 2000 and 4000 ms
C25_Witness ==
  \E c \in Calls :
    /\ pc[c] = "raised" /\ sends[c] = 4
    /\ ~lastFail[c].hasResponse
    /\ now = 7000

\* the error call c raised is the normalized error of lines 169-176
Normalized(c) ==
  /\ pc[c] = "raised"
  /\ err[c].type = "Error"
  /\ err[c].message # <<>> /\ err[c].message[1] = "Siigo API Error: "

\* C26: the normalized error a call raises carries the status of the last
\* attempt of the call (none when that attempt got no response) and the path
\* and the method the call was invoked with; the path is in the field
\* `endpoint`
C26_MetadataOfFinalAttempt ==
  /\ [][\A c \in Calls :
          (Failed(c) /\ pc'[c] = "raised" /\ err'[c].type = "Error")
          => /\ err'[c].statusCode =
                  (IF lastFail'[c].hasResponse THEN Some(lastFail'[c].status) ELSE None)
             /\ err'[c].endpoint = Some(op[c].endpoint)
             /\ err'[c].method = Some(op[c].method)]_vars
  /\ [](\A c \in Calls :
          Normalized(c)
          => /\ err[c].statusCode =
                  (IF lastFail[c].hasResponse THEN Some(lastFail[c].status) ELSE None)
             /\ err[c].endpoint = Some(op[c].endpoint)
             /\ err[c].method = Some(op[c].method))

\* a call whose first attempt was retried (no response) and whose second
\* attempt got 400 has raised an error with statusCode 400
C26_Witness ==
  \E c \in Calls :
    /\ Normalized(c)
    /\ sends[c] = 2 /\ Len(delays[c]) = 1
    /\ lastFail[c].hasResponse /\ lastFail[c].status = 400
    /\ err[c].statusCode = Some(400)
    /\ err[c].endpoint = Some("/v1/products") /\ err[c].method = Some("GET")

\* C27: a call whose POST /auth fails, with whatever failure, raises at once
\* the error of the HTTP layer as it is: no second POST /auth, no sleep, no
\* API request for the call, and the token cache is left as it was
C27_AuthNotRetried ==
  /\ [][\A c \in Calls :
          pc[c] = "auth"
          => /\ pc'[c] \in {"auth", "request", "raised"}
             /\ pc'[c] = "request"
                => accessToken' = lastAuth'.access_token /\ lastAuth' # lastAuth
             /\ pc'[c] = "raised"
                => /\ err'[c].type = "AxiosError"
                   /\ err'[c].message = <<lastFail'[c].message>>
                   /\ authPosts' = authPosts
                   /\ <<accessToken, tokenExpiry>>' = <<accessToken, tokenExpiry>>
                   /\ sends'[c] = 0 /\ sent'[c] = None /\ delays'[c] = <<>>]_vars
  /\ [](\A c \in Calls :
          (pc[c] = "raised" /\ err[c].type = "AxiosError")
          => sends[c] = 0 /\ sent[c] = None /\ delays[c] = <<>>)

\* the POST /auth of a call was answered 503 and the call has raised without
\* an attempt; the cache still holds the token getToken() stored before
C27_Witness ==
  \E c \in Calls :
    /\ pc[c] = "raised" /\ err[c].type = "AxiosError"
    /\ lastFail[c].hasResponse /\ lastFail[c].status = 503
    /\ sends[c] = 0
    /\ accessToken = 1 /\ tokenExpiry # None /\ authPosts = 2

\* the latest successful POST /auth reported a lifetime of 60 s or less
ShortLived == lastAuth.access_token # NoToken /\ lastAuth.expires_in <= 60

\* C28: a token whose response reported expires_in <= 60 is cached with an
\* expiry at or before the time of the response; the call that asked for it
\* sends its attempt with it, the cache test never takes it, and every call
\* that starts while it is cached issues a POST /auth of its own
C28_ShortLivedNeverReused ==
  /\ [](ShortLived
         => /\ accessToken = lastAuth.access_token
            /\ tokenExpiry # None /\ tokenExpiry[1] <= now
            /\ ~CacheValid)
  /\ [][\A c \in Calls :
          /\ (pc[c] = "auth" /\ pc'[c] = "request" /\ lastAuth'.expires_in <= 60)
             => /\ tokenExpiry'[1] <= now
                /\ token'[c] = lastAuth'.access_token
                /\ sent'[c] = Some([method |-> op[c].method, url |-> op[c].endpoint,
                                    Authorization |-> lastAuth'.access_token,
                                    IdempotencyKey |-> op[c].idempotencyKey])
          /\ (Started(c) /\ ShortLived)
             => /\ pc'[c] = "auth"
                /\ authPosts' = authPosts + 1
                /\ ~cached'[c]]_vars

\* a token of lifetime 60 s was cached at t = 0, and a call that starts at
\* t = 0 has issued the second POST /auth
C28_Witness ==
  \E c \in Calls :
    /\ lastAuth = [access_token |-> 1, expires_in |-> 60]
    /\ accessToken = 1 /\ tokenExpiry = Some(0) /\ now = 0
    /\ pc[c] = "auth" /\ authPosts = 2 /\ gt = "idle"

\* C29: a Retry-After that parses as n gives the delay n * 1000 ms whatever
\* n is: for n <= 0 the delay is not positive and the timer is due at once
\* (after the 1 ms a timer takes at least), for the large n it is n * 1000;
\* each such retry uses one of the three retries, and a call never sends more
\* than four attempts
C29_RetryAfterUnclamped ==
  /\ [][\A c \in Calls :
          /\ (/\ Retried(c)
              /\ lastFail'[c].retryAfter.present
              /\ ParseInt(lastFail'[c].retryAfter.value) # None)
             => LET n == ParseInt(lastFail'[c].retryAfter.value)[1]
                IN /\ delays'[c] = Append(delays[c],
                        [ms |-> n * 1000, retryAfterSeconds |-> Some(n)])
                   /\ n <= 0 => wakeAt'[c] = now + 1
                   /\ attempt[c] < 3
          /\ (pc[c] = "sleep" /\ pc'[c] = "request")
             => attempt'[c] = attempt[c] + 1 /\ sends'[c] = sends[c] + 1]_vars
  /\ [](\A c \in Calls : sends[c] <= 4 /\ attempt[c] <= 3 /\ Len(delays[c]) <= 3)

\* a call has been told to wait -1 s, 0 s and an hour: it sent its second and
\* third attempt as soon as the clock moved and sleeps 3600000 ms before its
\* fourth
C29_Witness ==
  \E c \in Calls :
    /\ pc[c] = "sleep" /\ sends[c] = 3
    /\ Len(delays[c]) = 3
    /\ delays[c][1].ms = -1000 /\ delays[c][2].ms = 0 /\ delays[c][3].ms = 3600000
    /\ wakeAt[c] = now + 3600000

\* C30: every attempt of a call after the first is the request of the attempt
\* before it: same method, path, extra headers and bearer token; the token is
\* the one obtained before the first attempt, and it stays the token of the
\* call whatever happens to the cache while the call waits or sleeps
C30_IdenticalAttempts ==
  /\ [][\A c \in Calls :
          /\ (Sent(c) /\ sends[c] >= 1) => sent'[c] = sent[c]
          /\ (pc[c] \in {"request", "sleep"} /\ pc'[c] \in {"request", "sleep"})
             => token'[c] = token[c] /\ op'[c] = op[c]]_vars
  /\ [](\A c \in Calls :
          sent[c] # None
          => sent[c][1] = [method |-> op[c].method, url |-> op[c].endpoint,
                           Authorization |-> token[c],
                           IdempotencyKey |-> op[c].idempotencyKey])

\* a retry was sent with token 1 after getToken() had replaced the cached
\* token by token 2
C30_Witness ==
  \E c \in Calls :
    /\ pc[c] = "request" /\ attempt[c] >= 1
    /\ sent[c] # None /\ sent[c][1].Authorization = 1
    /\ accessToken = 2

====
